---- MODULE Spec2Model ----
(***************************************************************************)
(* A model of analysis.py: the one-shot pipeline main() runs over          *)
(* netflix_titles.csv (existence check, load, clean, three statistics,     *)
(* two charts), with the data-frame operations it calls written out as     *)
(* operators on sequences.                                                 *)
(*                                                                         *)
(* A cell of the table is an option: NaN for a missing value, Some(v) for  *)
(* a present one.  A string is a sequence of one-character strings, so     *)
(* that split(',') and strip() are computed character by character.  A     *)
(* Series with an index (the result of value_counts) is a sequence of      *)
(* [key, count] rows in the Series' order.                                 *)
(***************************************************************************)
EXTENDS Integers, Sequences, FiniteSets

\* ------------------------------------------------------------------ bounds

\* Every sequence of at most MaxLen records of the universe Records is a file.
MaxLen == 3

\* The long files have up to NumLong + 1 records and NumLong distinct
\* countries and release years: more than the TopN entries that are printed.
NumLong == 11

\* At most MaxDropped of the NumLong records of a long file are left out.
MaxDropped == 1

\* head(10) in find_top_producing_country, find_most_common_year and
\* plot_top_countries.
TopN == 10

\* ------------------------------------------------------------------ cells

NaN == <<>>

Some(v) == <<v>>

IsNull(x) == x = NaN

Value(x) == x[1]

Min(a, b) == IF a <= b THEN a ELSE b

Range(s) == {s[i] : i \in 1..Len(s)}

\* ------------------------------------------------------------------ strings

Whitespace == {" "}

\* str.split(','): the pieces between the commas, empty pieces included.
RECURSIVE SplitFrom(_, _, _)
SplitFrom(s, i, cur) ==
    IF i > Len(s) THEN <<cur>>
    ELSE IF s[i] = "," THEN <<cur>> \o SplitFrom(s, i + 1, <<>>)
    ELSE SplitFrom(s, i + 1, Append(cur, s[i]))

split(s) == SplitFrom(s, 1, <<>>)

RECURSIVE lstrip(_)
lstrip(s) ==
    IF s # <<>> /\ Head(s) \in Whitespace THEN lstrip(Tail(s)) ELSE s

RECURSIVE rstrip(_)
rstrip(s) ==
    IF s # <<>> /\ s[Len(s)] \in Whitespace
    THEN rstrip(SubSeq(s, 1, Len(s) - 1))
    ELSE s

\* str.strip()
strip(s) == rstrip(lstrip(s))

\* [c.strip() for c in countries_str.split(',')]
split_countries(s) == [i \in 1..Len(split(s)) |-> strip(split(s)[i])]

\* ------------------------------------------------------------------ frames

\* DataFrame.dropna(subset=[col]): the rows whose cell in col is present.
dropna(d, col) == SelectSeq(d, LAMBDA r : ~IsNull(r[col]))

\* df[col]: the column as a sequence of cells.
Column(d, col) == [i \in 1..Len(d) |-> d[i][col]]

\* A variant that keeps the last of several identical rows.
RECURSIVE drop_duplicates_keep_last(_)
drop_duplicates_keep_last(d) ==
    IF d = <<>> THEN <<>>
    ELSE IF Head(d) \in Range(Tail(d)) THEN drop_duplicates_keep_last(Tail(d))
    ELSE <<Head(d)>> \o drop_duplicates_keep_last(Tail(d))

\* A variant that removes one duplicate row per call, the first it meets.
RECURSIVE DropOneFrom(_, _)
DropOneFrom(d, i) ==
    IF i > Len(d) THEN d
    ELSE IF d[i] \in Range(SubSeq(d, 1, i - 1))
         THEN SubSeq(d, 1, i - 1) \o SubSeq(d, i + 1, Len(d))
         ELSE DropOneFrom(d, i + 1)

drop_one_duplicate(d) == DropOneFrom(d, 1)

\* DataFrame.drop_duplicates() with its defaults (all columns, keep='first'):
\* the rows are scanned in order and a row equal to one already kept is
\* dropped; two missing cells are equal.
RECURSIVE DropDuplicatesFrom(_, _, _)
DropDuplicatesFrom(d, i, kept) ==
    IF i > Len(d) THEN kept
    ELSE IF d[i] \in Range(kept) THEN DropDuplicatesFrom(d, i + 1, kept)
    ELSE DropDuplicatesFrom(d, i + 1, Append(kept, d[i]))

drop_duplicates(d) == DropDuplicatesFrom(d, 1, <<>>)

\* The keys of a hash table filled from values, in first-encountered order.
RECURSIVE UniqueFrom(_, _, _)
UniqueFrom(values, i, keys) ==
    IF i > Len(values) THEN keys
    ELSE IF values[i] \in Range(keys) THEN UniqueFrom(values, i + 1, keys)
    ELSE UniqueFrom(values, i + 1, Append(keys, values[i]))

unique(values) == UniqueFrom(values, 1, <<>>)

\* df.isnull().sum(): per column, the number of rows with a missing cell.
Columns == {"type", "country", "release_year"}

isnull_sum(d) == [col \in Columns |-> Len(d) - Len(dropna(d, col))]

\* A variant of clean_data that also drops the rows with a missing cell.
clean_data_dropna(d) ==
    LET out == SelectSeq(drop_duplicates(d),
                         LAMBDA r : \A col \in Columns : ~IsNull(r[col]))
    IN [df |-> out,
        duplicates_removed |-> Len(d) - Len(out),
        missing_values |-> isnull_sum(out)]

\* clean_data: the frame returned, the number of duplicates reported and the
\* missing-value counts reported.  (The percentages printed with the counts
\* are formatting of these numbers.)
clean_data(d) ==
    LET out == drop_duplicates(d)
    IN [df |-> out,
        duplicates_removed |-> Len(d) - Len(out),
        missing_values |-> isnull_sum(out)]

\* ------------------------------------------------------------------ series

Count(values, k) == Cardinality({i \in 1..Len(values) : values[i] = k})

\* A variant that counts the missing cells as a key of their own.
value_counts_keepna(values) ==
    LET keys == unique(values)
    IN [i \in 1..Len(keys) |-> [key |-> keys[i], count |-> Count(values, keys[i])]]

\* The hash-table pass of Series.value_counts(): the distinct present values
\* in first-encountered order, each with its number of occurrences (missing
\* values are dropped, dropna=True).
value_counts_table(values) ==
    LET keys == unique(SelectSeq(values, LAMBDA v : ~IsNull(v)))
    IN [i \in 1..Len(keys) |-> [key |-> keys[i], count |-> Count(values, keys[i])]]

Remove(s, i) == SubSeq(s, 1, i - 1) \o SubSeq(s, i + 1, Len(s))

MaxCount(s) ==
    CHOOSE m \in {s[i].count : i \in 1..Len(s)} :
        \A i \in 1..Len(s) : s[i].count <= m

\* The sorting pass of Series.value_counts(): sort_values(ascending=False)
\* with the default kind='quicksort', which is not a stable sort.  The order
\* of rows with equal counts depends on the sort the build selects, so every
\* arrangement with non-increasing counts is an outcome.
RECURSIVE sort_values_desc(_)
sort_values_desc(s) ==
    IF s = <<>> THEN {<<>>}
    ELSE UNION { { <<s[i]>> \o rest : rest \in sort_values_desc(Remove(s, i)) } :
                 i \in {j \in 1..Len(s) : s[j].count = MaxCount(s)} }

\* A variant of value_counts that keeps the missing cells (dropna=False).
value_counts_dropna_false(values) == sort_values_desc(value_counts_keepna(values))

\* Series.value_counts(): the outcomes of the two passes.
value_counts(values) == sort_values_desc(value_counts_table(values))

\* A variant of sort_index that sorts ascending.
RECURSIVE sort_index_asc(_)
sort_index_asc(s) ==
    IF s = <<>> THEN <<>>
    ELSE LET i == CHOOSE j \in 1..Len(s) :
                     \A k \in 1..Len(s) : Value(s[j].key) <= Value(s[k].key)
         IN <<s[i]>> \o sort_index_asc(Remove(s, i))

\* Series.sort_index(ascending=False) of a Series indexed by year: the index
\* of a value_counts result has no repeated key, so the result is the same
\* for every order the rows arrive in.
RECURSIVE sort_index_desc(_)
sort_index_desc(s) ==
    IF s = <<>> THEN <<>>
    ELSE LET i == CHOOSE j \in 1..Len(s) :
                     \A k \in 1..Len(s) : Value(s[j].key) >= Value(s[k].key)
         IN <<s[i]>> \o sort_index_desc(Remove(s, i))

\* Series.head(n)
head(s, n) == SubSeq(s, 1, Min(n, Len(s)))

\* A variant of idxmax that returns the label of the last maximum.
idxmax_last(s) ==
    s[CHOOSE j \in 1..Len(s) :
          /\ s[j].count = MaxCount(s)
          /\ \A k \in (j + 1)..Len(s) : s[k].count < MaxCount(s)].key

\* Series.idxmax() of a non-empty Series: the label of the first row that
\* holds the maximum.  (On an empty Series it raises ValueError; the caller
\* tests for that.)
idxmax(s) ==
    s[CHOOSE j \in 1..Len(s) :
          /\ s[j].count = MaxCount(s)
          /\ \A k \in 1..(j - 1) : s[k].count < MaxCount(s)].key

\* k in s.index
HasKey(s, k) == \E i \in 1..Len(s) : s[i].key = k

\* s[k]
CountOf(s, k) == (CHOOSE row \in Range(s) : row.key = k).count

\* pd.Series(values): each value a present cell.
Series(values) == [i \in 1..Len(values) |-> Some(values[i])]

RECURSIVE Flatten(_)
Flatten(ss) == IF ss = <<>> THEN <<>> ELSE Head(ss) \o Flatten(Tail(ss))

\* The loop of find_top_producing_country over df_countries['country']:
\* every present cell of the model is a str, and its pieces extend the list.
country_list(d) ==
    LET col == Column(dropna(d, "country"), "country")
    IN Flatten([i \in 1..Len(col) |-> split_countries(Value(col[i]))])

\* ------------------------------------------------------------------ files

Movie == Some("Movie")

TVShow == Some("TV Show")

Record(t, c, y) == [type |-> t, country |-> c, release_year |-> y]

\* The records the short files are made of: both types and a missing type,
\* single and multiple countries, a country cell of commas and blanks only
\* (" , ,"), a leading comma, and missing cells in every column.
Records ==
    { Record(Movie,  Some(<<"a">>), Some(2020)),
      Record(TVShow, Some(<<"a", ",", " ", "b">>), Some(2019)),
      Record(TVShow, Some(<<"b", ",", "a">>), Some(2020)),
      Record(Movie,  Some(<<" ", ",", " ", ",">>), Some(2021)),
      Record(TVShow, NaN, Some(2021)),
      Record(Movie,  Some(<<"b">>), NaN),
      Record(NaN,    Some(<<",", "a">>), Some(2020)),
      Record(NaN,    NaN, NaN) }

RECURSIVE SeqsUpTo(_)
SeqsUpTo(n) ==
    IF n = 0 THEN {<<>>}
    ELSE LET shorter == SeqsUpTo(n - 1)
         IN shorter \cup {Append(s, r) : s \in shorter, r \in Records}

ShortFiles == SeqsUpTo(MaxLen)

Letters == <<"a", "b", "c", "d", "e", "f", "g", "h",
             "i", "j", "k", "l", "m", "n", "o", "p">>

\* The names i..n joined by ", ".
RECURSIVE JoinNames(_, _)
JoinNames(i, n) ==
    IF i > n THEN <<>>
    ELSE IF i = n THEN <<Letters[i]>>
    ELSE <<Letters[i], ",", " ">> \o JoinNames(i + 1, n)

YearOf(i) == 2000 + i

\* The i-th record of a long file: the countries i..NumLong, the i-th year.
LongRecord(i) == Record(Movie, Some(JoinNames(i, NumLong)), Some(YearOf(i)))

ExtraRecord(i) == Record(TVShow, NaN, Some(YearOf(i)))

RECURSIVE KeepFrom(_, _)
KeepFrom(i, S) ==
    IF i > NumLong THEN <<>>
    ELSE (IF i \in S THEN <<LongRecord(i)>> ELSE <<>>) \o KeepFrom(i + 1, S)

\* The long files: the records LongRecord(1..NumLong) with at most MaxDropped
\* of them left out, followed or not by one more record of one of the years.
LongFiles ==
    { KeepFrom(1, S) \o extra :
        S \in {T \in SUBSET (1..NumLong) : NumLong - Cardinality(T) <= MaxDropped},
        extra \in {<<>>} \cup {<<ExtraRecord(i)>> : i \in 1..NumLong} }

Files == ShortFiles \cup LongFiles

\* ------------------------------------------------------------------ state

VARIABLES
    file_exists,        \* os.path.exists("netflix_titles.csv")
    parse_ok,           \* pd.read_csv reads the file without an exception
    csv,                \* the rows of the file
    plots_dir_exists,   \* os.path.exists("plots")
    pc,                 \* the statement of main that runs next
    df,                 \* main's df
    error_printed,      \* an "Error ..." line was printed
    duplicates_removed, \* clean_data's duplicates_removed
    missing_values,     \* clean_data's missing_values
    type_counts,        \* calculate_movie_tv_ratio's type_counts
    ratio,              \* the Movie and TV Show counts of the ratio line, if printed
    country_counts,     \* find_top_producing_country's result
    top_countries,      \* the rows find_top_producing_country prints
    year_counts,        \* find_most_common_year's year_counts
    most_common_year,   \* the year find_most_common_year prints
    top_years,          \* the rows find_most_common_year prints
    charts,             \* the image files saved, with the rows drawn
    raised,             \* the exception that ended the run, if any
    exit_status         \* the exit status of the process, once it has ended

env == <<file_exists, parse_ok, csv>>

q1 == <<type_counts, ratio>>

q2 == <<country_counts, top_countries>>

q3 == <<year_counts, most_common_year, top_years>>

cleaning == <<duplicates_removed, missing_values>>

vars == <<file_exists, parse_ok, csv, plots_dir_exists, pc, df, error_printed,
          duplicates_removed, missing_values, type_counts, ratio,
          country_counts, top_countries, year_counts, most_common_year,
          top_years, charts, raised, exit_status>>

Init ==
    /\ \/ file_exists = FALSE /\ parse_ok = FALSE /\ csv = <<>>
       \/ file_exists = TRUE /\ parse_ok = FALSE /\ csv = <<>>
       \/ file_exists = TRUE /\ parse_ok = TRUE /\ csv \in Files
    /\ plots_dir_exists \in BOOLEAN
    /\ pc = "check_file_exists"
    /\ df = <<>>
    /\ error_printed = FALSE
    /\ duplicates_removed = 0
    /\ missing_values = [col \in Columns |-> 0]
    /\ type_counts = <<>>
    /\ ratio = NaN
    /\ country_counts = <<>>
    /\ top_countries = <<>>
    /\ year_counts = <<>>
    /\ most_common_year = NaN
    /\ top_years = <<>>
    /\ charts = {}
    /\ raised = NaN
    /\ exit_status = NaN

\* main, step 1: check_file_exists; on False main returns, and the script
\* ends with nothing more to run, so the interpreter exits with status 0.
CheckFileExists ==
    /\ pc = "check_file_exists"
    /\ IF ~file_exists
       THEN /\ error_printed' = TRUE
            /\ pc' = "exited"
            /\ exit_status' = Some(0)
       ELSE /\ pc' = "create_plots_directory"
            /\ UNCHANGED <<error_printed, exit_status>>
    /\ UNCHANGED <<env, plots_dir_exists, df, cleaning, q1, q2, q3, charts, raised>>

\* main, step 2: create_plots_directory
CreatePlotsDirectory ==
    /\ pc = "create_plots_directory"
    /\ plots_dir_exists' = TRUE
    /\ pc' = "load_data"
    /\ UNCHANGED <<env, df, error_printed, cleaning, q1, q2, q3, charts, raised,
                   exit_status>>

\* main, step 3: load_data; an exception of read_csv is printed and ends the
\* process with sys.exit(1).
LoadData ==
    /\ pc = "load_data"
    /\ IF parse_ok
       THEN /\ df' = csv
            /\ pc' = "clean_data"
            /\ UNCHANGED <<error_printed, exit_status>>
       ELSE /\ error_printed' = TRUE
            /\ pc' = "exited"
            /\ exit_status' = Some(1)
            /\ UNCHANGED df
    /\ UNCHANGED <<env, plots_dir_exists, cleaning, q1, q2, q3, charts, raised>>

\* main, step 4: df = clean_data(df)
CleanData ==
    /\ pc = "clean_data"
    /\ df' = clean_data(df).df
    /\ duplicates_removed' = clean_data(df).duplicates_removed
    /\ missing_values' = clean_data(df).missing_values
    /\ pc' = "calculate_movie_tv_ratio"
    /\ UNCHANGED <<env, plots_dir_exists, error_printed, q1, q2, q3, charts, raised,
                   exit_status>>

\* main, step 5a: calculate_movie_tv_ratio(df)
CalculateMovieTvRatio ==
    /\ pc = "calculate_movie_tv_ratio"
    /\ \E tc \in value_counts(Column(df, "type")) :
          /\ type_counts' = tc
          /\ ratio' = IF HasKey(tc, Movie) /\ HasKey(tc, TVShow)
                      THEN Some([movie |-> CountOf(tc, Movie),
                                 tv_show |-> CountOf(tc, TVShow)])
                      ELSE NaN
    /\ pc' = "find_top_producing_country"
    /\ UNCHANGED <<env, plots_dir_exists, df, error_printed, cleaning, q2, q3, charts,
                   raised, exit_status>>

\* main, step 5b: country_counts = find_top_producing_country(df)
FindTopProducingCountry ==
    /\ pc = "find_top_producing_country"
    /\ \E cc \in value_counts(Series(country_list(df))) :
          /\ country_counts' = cc
          /\ top_countries' = head(cc, TopN)
    /\ pc' = "find_most_common_year"
    /\ UNCHANGED <<env, plots_dir_exists, df, error_printed, cleaning, q1, q3, charts,
                   raised, exit_status>>

\* main, step 5c: find_most_common_year(df).  year_counts is the
\* value_counts of the present years re-sorted by sort_index, which undoes
\* whatever order value_counts left the rows in.  idxmax of an empty
\* year_counts raises ValueError, which nothing catches: the process ends
\* with a traceback and status 1.
FindMostCommonYear ==
    /\ pc = "find_most_common_year"
    /\ LET yc == sort_index_desc(
                     value_counts_table(Column(dropna(df, "release_year"),
                                               "release_year")))
       IN /\ year_counts' = yc
          /\ IF yc = <<>>
             THEN /\ raised' = Some("ValueError")
                  /\ pc' = "exited"
                  /\ exit_status' = Some(1)
                  /\ UNCHANGED <<most_common_year, top_years>>
             ELSE /\ most_common_year' = idxmax(yc)
                  /\ top_years' = head(yc, TopN)
                  /\ pc' = "plot_movie_tv_distribution"
                  /\ UNCHANGED <<raised, exit_status>>
    /\ UNCHANGED <<env, plots_dir_exists, df, error_printed, cleaning, q1, q2, charts>>

\* main, step 6a: plot_movie_tv_distribution(df, plots_dir) counts the types
\* again; the same sort of the same values gives the order it gave before.
\* What the plotting library does with a Series of no rows depends on its
\* version: it draws an empty chart or raises, and an exception ends the run.
PlotMovieTvDistribution ==
    /\ pc = "plot_movie_tv_distribution"
    /\ \E tc \in value_counts(Column(df, "type")) :
          /\ tc = type_counts
          /\ \/ /\ charts' = charts \cup {[file |-> "movies_vs_tvshows.png", rows |-> tc]}
                /\ pc' = "plot_top_countries"
                /\ UNCHANGED <<raised, exit_status>>
             \/ /\ tc = <<>>
                /\ raised' = Some("plotting error")
                /\ pc' = "exited"
                /\ exit_status' = Some(1)
                /\ UNCHANGED charts
    /\ UNCHANGED <<env, plots_dir_exists, df, error_printed, cleaning, q1, q2, q3>>

\* main, step 6b: plot_top_countries(df, plots_dir, country_counts)
PlotTopCountries ==
    /\ pc = "plot_top_countries"
    /\ LET top_10_countries == head(country_counts, TopN)
       IN \/ /\ charts' = charts \cup {[file |-> "top_10_countries.png",
                                        rows |-> top_10_countries]}
             /\ pc' = "complete"
             /\ UNCHANGED <<raised, exit_status>>
          \/ /\ top_10_countries = <<>>
             /\ raised' = Some("plotting error")
             /\ pc' = "exited"
             /\ exit_status' = Some(1)
             /\ UNCHANGED charts
    /\ UNCHANGED <<env, plots_dir_exists, df, error_printed, cleaning, q1, q2, q3>>

\* main's closing prints; main returns and the process exits with status 0.
Complete ==
    /\ pc = "complete"
    /\ pc' = "exited"
    /\ exit_status' = Some(0)
    /\ UNCHANGED <<env, plots_dir_exists, df, error_printed, cleaning, q1, q2, q3,
                   charts, raised>>

Next ==
    \/ CheckFileExists
    \/ CreatePlotsDirectory
    \/ LoadData
    \/ CleanData
    \/ CalculateMovieTvRatio
    \/ FindTopProducingCountry
    \/ FindMostCommonYear
    \/ PlotMovieTvDistribution
    \/ PlotTopCountries
    \/ Complete

Spec == Init /\ [][Next]_vars

\* ------------------------------------------------------------------ claims

\* Where main is: the frame is loaded, cleaned, and each question answered.
Loaded ==
    /\ file_exists /\ parse_ok
    /\ pc \notin {"check_file_exists", "create_plots_directory", "load_data"}

Cleaned == Loaded /\ pc # "clean_data"

PastQ1 == Cleaned /\ pc # "calculate_movie_tv_ratio"

PastQ2 == PastQ1 /\ pc # "find_top_producing_country"

PastQ3 == PastQ2 /\ pc # "find_most_common_year"

YearsPrinted == PastQ3 /\ raised # Some("ValueError")

\* The present release years of the frame and the number of rows of each.
PresentYears == {Value(r.release_year) : r \in Range(dropna(df, "release_year"))}

RowsOfYear(y) == Cardinality({i \in 1..Len(df) : df[i].release_year = Some(y)})

\* The sum of the counts of a Series of counts.
RECURSIVE SumCounts(_)
SumCounts(s) == IF s = <<>> THEN 0 ELSE Head(s).count + SumCounts(Tail(s))

\* The trimmed pieces of a country cell that are not empty.
split_countries_nonempty(s) == SelectSeq(split_countries(s), LAMBDA c : c # <<>>)

\* The country names of the frame that are not empty, one per occurrence.
NonEmptyNames ==
    LET col == Column(dropna(df, "country"), "country")
    IN Flatten([i \in 1..Len(col) |-> split_countries_nonempty(Value(col[i]))])

\* The arrangement a stable sort gives: equal counts in first-encountered order.
RECURSIVE stable_sort_values_desc(_)
stable_sort_values_desc(s) ==
    IF s = <<>> THEN <<>>
    ELSE LET i == CHOOSE j \in 1..Len(s) :
                     /\ s[j].count = MaxCount(s)
                     /\ \A k \in 1..(j - 1) : s[k].count < MaxCount(s)
         IN <<s[i]>> \o stable_sort_values_desc(Remove(s, i))


\* C1: when the input file does not exist, the run prints a diagnostic and
\* the process ends with a non-zero exit status.
C1_MissingFileExitsNonZero ==
    (pc = "exited" /\ ~file_exists) => (error_printed /\ exit_status # Some(0))

\* C2: for a dataset that is empty after cleaning the run does not raise:
\* the three statistics report zero counts, the ratio is omitted and the
\* most common year is absent.
C2_EmptyDatasetDoesNotRaise ==
    (PastQ3 /\ df = <<>>) =>
        /\ raised = NaN
        /\ SumCounts(type_counts) = 0
        /\ SumCounts(country_counts) = 0
        /\ SumCounts(year_counts) = 0
        /\ ratio = NaN
        /\ most_common_year = NaN

\* C3: only non-empty trimmed names are counted: the empty string is never a
\* key of the country frequency table, and the counts add up to the number of
\* non-empty names.
C3_NoEmptyCountryKey ==
    PastQ2 =>
        /\ ~HasKey(country_counts, Some(<<>>))
        /\ SumCounts(country_counts) = Len(NonEmptyNames)

\* C4 as stated: the counts of the type distribution add up to the number of
\* records of the cleaned dataset.
C4_TypeCountsSumToAllRecords ==
    PastQ1 => SumCounts(type_counts) = Len(df)

\* C4 as amended: the counts of the type distribution add up to the number of
\* records of the cleaned dataset whose type is present, each type counted as
\* often as it occurs; that is every record when no type is missing.
C4_TypeCountsSumToPresentTypes ==
    PastQ1 =>
        /\ SumCounts(type_counts) =
               Cardinality({i \in 1..Len(df) : ~IsNull(df[i].type)})
        /\ \A i \in 1..Len(type_counts) :
               type_counts[i].count =
                   Cardinality({j \in 1..Len(df) : df[j].type = type_counts[i].key})
        /\ (\A i \in 1..Len(df) : ~IsNull(df[i].type)) =>
               SumCounts(type_counts) = Len(df)

C4_Witness ==
    /\ PastQ1
    /\ \E i \in 1..Len(df) : IsNull(df[i].type)
    /\ Len(type_counts) = 2

\* The rows of the file that no earlier row equals.
KeptIdx == {i \in 1..Len(csv) : \A j \in 1..(i - 1) : csv[j] # csv[i]}

\* The k-th smallest member of a set of row numbers.
Kth(idx, k) == CHOOSE i \in idx : Cardinality({j \in idx : j <= i}) = k

\* C5: clean_data removes a record exactly when an earlier record is
\* identical to it in every column, keeps the others in their original order
\* and reports |input| - |output| duplicates; no two records of the cleaned
\* dataset are identical.
C5_DropsLaterDuplicatesInOrder ==
    Cleaned =>
        LET kept == KeptIdx
        IN /\ Len(df) = Cardinality(kept)
           /\ \A k \in 1..Len(df) : df[k] = csv[Kth(kept, k)]
           /\ duplicates_removed = Len(csv) - Len(df)
           /\ \A i, j \in 1..Len(df) : i # j => df[i] # df[j]

C5_Witness ==
    /\ Cleaned
    /\ Len(csv) >= 3
    /\ csv[1] = csv[3]
    /\ csv[1] # csv[2]
    /\ duplicates_removed = 1

\* C6: the cleaned dataset is no larger than the input, and cleaning the
\* cleaned dataset again returns it unchanged and removes no duplicate.
C6_CleanShrinksAndIsIdempotent ==
    Cleaned =>
        /\ Len(df) <= Len(csv)
        /\ clean_data(df).df = df
        /\ clean_data(df).duplicates_removed = 0

C6_Witness ==
    /\ Cleaned
    /\ Len(csv) - Len(df) >= 2

C8_Step ==
    /\ pc = "clean_data" => Range(df') = Range(df)
    /\ pc \in {"calculate_movie_tv_ratio", "find_top_producing_country",
               "find_most_common_year", "plot_movie_tv_distribution",
               "plot_top_countries", "complete"} => df' = df
    /\ pc = "calculate_movie_tv_ratio" =>
           SumCounts(type_counts') = Cardinality({i \in 1..Len(df) : ~IsNull(df[i].type)})
    /\ pc = "find_top_producing_country" =>
           \A i \in 1..Len(df) :
               ~IsNull(df[i].country) =>
                   \A c \in Range(split_countries(Value(df[i].country))) :
                       HasKey(country_counts', Some(c))
    /\ pc = "find_most_common_year" =>
           SumCounts(year_counts') =
               Cardinality({i \in 1..Len(df) : ~IsNull(df[i].release_year)})
    /\ (pc = "plot_movie_tv_distribution" /\ charts' # charts) =>
           \E chart \in charts' :
               SumCounts(chart.rows) =
                   Cardinality({i \in 1..Len(df) : ~IsNull(df[i].type)})

C8_MissingValuesRemoveNoRecord == [][C8_Step]_vars

C8_Witness ==
    /\ pc = "plot_top_countries"
    /\ \E r \in Range(df) :
          /\ IsNull(r.country) /\ ~IsNull(r.release_year) /\ ~IsNull(r.type)
    /\ \E r \in Range(df) :
          /\ IsNull(r.release_year) /\ ~IsNull(r.country)
    /\ SumCounts(year_counts) < Len(df)

\* The TopN largest of a set of years.
Recent(years) == {y \in years : Cardinality({z \in years : z > y}) < TopN}

\* C9: the printed release-year list is sorted by year descending, not by
\* count: it is the 10 largest distinct years present (all of them when there
\* are fewer), each with its number of records.
C9_TopYearsAreMostRecent ==
    YearsPrinted =>
        LET recent == Recent(PresentYears)
        IN /\ Len(top_years) = Cardinality(recent)
           /\ Len(top_years) = Min(TopN, Cardinality(PresentYears))
           /\ \A i \in 1..Len(top_years) :
                  /\ Value(top_years[i].key) \in recent
                  /\ top_years[i].count = RowsOfYear(Value(top_years[i].key))
           /\ \A i, j \in 1..Len(top_years) :
                  i < j => Value(top_years[i].key) > Value(top_years[j].key)

C9_Witness ==
    /\ YearsPrinted
    /\ Cardinality(PresentYears) > TopN
    /\ \E y \in PresentYears \ Recent(PresentYears) :
          \A z \in Recent(PresentYears) : RowsOfYear(y) > RowsOfYear(z)

\* C10: with at least one present release year, the most common year has
\* the maximal count among the present years, and among the years that tie
\* for the maximal count it is the largest.
C10_MostCommonYearIsLargestMaximum ==
    (PastQ3 /\ PresentYears # {}) =>
        /\ raised # Some("ValueError")
        /\ most_common_year # NaN
        /\ Value(most_common_year) \in PresentYears
        /\ \A z \in PresentYears :
               /\ RowsOfYear(z) <= RowsOfYear(Value(most_common_year))
               /\ RowsOfYear(z) = RowsOfYear(Value(most_common_year)) =>
                      z <= Value(most_common_year)

C10_Witness ==
    /\ YearsPrinted
    /\ \E z \in PresentYears :
          /\ z # Value(most_common_year)
          /\ RowsOfYear(z) = RowsOfYear(Value(most_common_year))
    /\ Len(df) > Cardinality(PresentYears)

====
